---- MODULE Spec2Model ----
\* Model of the Sony DE demo harness: the synthetic-record generators and the
\* batch loader of incremental_load.py, the lineage graph the dashboards draw
\* (streamlit_app/app_sis.py), and the script runs of the two dashboards
\* (streamlit_app/app.py, streamlit_app/app_sis.py).
\*
\* Numbers.  Python floats are modelled in fixed point: a unit price is a whole
\* number of mills (1/1000 of a currency unit), an exchange rate a whole number
\* of 1/100000, and a rounded amount a whole number of cents.  round(x, 2) is
\* round-half-to-even on the exact value.  Products are split so that no
\* intermediate value leaves the 32-bit range.
\*
\* Time.  A datetime is <<day, second of day, microsecond>>; strftime drops
\* the components its format does not print.
EXTENDS Integers, Sequences, FiniteSets, TLC

VARIABLES
    \* ---- generators -------------------------------------------------
    draw,       \* the arguments and the random draws of one generator call
    record,     \* the record the call returned (NoRecord before it returns)
    \* ---- loader -----------------------------------------------------
    pc,         \* position of the process in main / load_batch
    conn,       \* the warehouse connection: "none", "open", "closed"
    cursors,    \* number of cursors opened and not closed
    batch,      \* main's loop variable
    args,       \* load_batch's arguments [batch_num, fan_count, box_office_count]
    idx,        \* number of iterations done of the loop load_batch is executing
    log,        \* statements the current load_batch call has executed, in order
    landed,     \* the landing tables: rows per <<table, source system, source file>>
    fan_count_total, \* load_batch's local: result of the first count query
    fact_count, \* load_batch's local: result of the second count query
    ret,        \* value returned by the last completed load_batch call
    events,     \* what main has done so far, in order
    failed,     \* the statement that raised, if one did
    \* ---- dashboard -------------------------------------------------
    variant,    \* the script that is served: "app" (app.py) or "app_sis" (app_sis.py)
    dpc,        \* position of the current script run, "idle" / "stopped" after it
    runs,       \* number of script runs started in the session
    trigger,    \* what started the current run: "load", "plain", "click", "rerun"
    cache,      \* st.cache_resource of get_connection: <<>> or <<handle>>
    handles,    \* number of connections connect() has returned
    connects,   \* number of calls of connect()
    presses,    \* number of times 'Refresh Data' was pressed
    clears,     \* number of times the cache was cleared
    stale,      \* what the cache held when it was last cleared
    qlog,       \* the run_query calls of the current run: [q, handle, ok]
    rendered,   \* the sections the current run has rendered
    dq          \* tab2's locals: dq_results and what is computed from it

genVars == <<draw, record>>
loadVars ==
    <<pc, conn, cursors, batch, args, idx, log, landed, fan_count_total, fact_count, ret,
      events, failed>>
dashVars ==
    <<variant, dpc, runs, trigger, cache, handles, connects, presses, clears, stale, qlog,
      rendered, dq>>
vars ==
    <<draw, record, pc, conn, cursors, batch, args, idx, log, landed, fan_count_total,
      fact_count, ret, events, failed, variant, dpc, runs, trigger, cache, handles,
      connects, presses, clears, stale, qlog, rendered, dq>>

\* Python's None
None == "<None>"

\* no record returned yet
NoRecord == [kind |-> "none"]

\* no dashboard is served
DashOff ==
    /\ variant = "app"
    /\ dpc = "off"
    /\ runs = 0
    /\ trigger = "none"
    /\ cache = <<>>
    /\ handles = 0
    /\ connects = 0
    /\ presses = 0
    /\ clears = 0
    /\ stale = <<>>
    /\ qlog = <<>>
    /\ rendered = {}
    /\ dq = [kind |-> "none"]

\* ---------------------------------------------------------------------
\* Bounds of the model
\* ---------------------------------------------------------------------
\* raw values of the shared random draw: 0 .. MaxDraw
MaxDraw == 2
\* batch numbers passed to a generator or to a single load_batch call
MaxBatchNum == 2
\* number of unit prices sampled strictly between the two ends of [8, 18]
MaxPrices == 4
\* number of ticket counts sampled strictly between 50 and 500
MaxTickets == 3

\* ---------------------------------------------------------------------
\* Lookup tables (incremental_load.py, lines 9-20)
\* ---------------------------------------------------------------------
Pad3(i) == IF i < 10 THEN "00" \o ToString(i) ELSE "0" \o ToString(i)

TITLE_IDS == [i \in 1..15 |-> "SPE" \o Pad3(i)]

REGIONS == <<"North America", "Europe", "Asia Pacific", "Latin America">>

COUNTRIES ==
    [r \in {"North America", "Europe", "Asia Pacific", "Latin America"} |->
        CASE r = "North America" -> <<"USA", "CAN", "MEX">>
          [] r = "Europe"        -> <<"GBR", "DEU", "FRA", "ESP">>
          [] r = "Asia Pacific"  -> <<"JPN", "AUS", "KOR", "IND">>
          [] r = "Latin America" -> <<"BRA", "ARG", "COL">>]

DEVICES == <<"iOS", "Android", "Web", "SmartTV", "PlayStation", "Xbox">>

EVENT_TYPES == <<"STREAM", "BROWSE", "PURCHASE", "REVIEW", "SHARE", "WISHLIST">>

ACCOUNT_TYPES == <<"VERIFIED_LINKED", "GUEST">>

FIRST_NAMES ==
    <<"James", "Emma", "Liam", "Olivia", "Noah", "Ava", "Oliver", "Sophia", "Elijah",
      "Isabella", "Lucas", "Mia", "Mason", "Charlotte", "Ethan", "Amelia", "Aiden",
      "Harper", "Logan", "Evelyn">>

LAST_NAMES ==
    <<"Smith", "Johnson", "Williams", "Brown", "Jones", "Garcia", "Miller", "Davis",
      "Martinez", "Wilson">>

THEATERS ==
    <<<<"AMC Downtown", "THR-100">>, <<"Regal Mall Plaza", "THR-101">>,
      <<"Cinemark Central", "THR-102">>, <<"Vue Cinema", "THR-103">>,
      <<"Odeon Luxe", "THR-104">>, <<"TOHO Cinemas", "THR-105">>>>

\* the currency table of generate_box_office: rates in 1/100000
currencies ==
    [c \in {"USA", "CAN", "MEX", "GBR", "DEU", "FRA", "ESP", "JPN", "AUS", "KOR", "IND",
            "BRA", "ARG", "COL"} |->
        CASE c = "USA" -> <<"USD", 100000>>
          [] c = "CAN" -> <<"CAD", 74000>>
          [] c = "MEX" -> <<"MXN", 5800>>
          [] c = "GBR" -> <<"GBP", 127000>>
          [] c = "DEU" -> <<"EUR", 108000>>
          [] c = "FRA" -> <<"EUR", 108000>>
          [] c = "ESP" -> <<"EUR", 108000>>
          [] c = "JPN" -> <<"JPY", 670>>
          [] c = "AUS" -> <<"AUD", 65000>>
          [] c = "KOR" -> <<"KRW", 75>>
          [] c = "IND" -> <<"INR", 1200>>
          [] c = "BRA" -> <<"BRL", 20000>>
          [] c = "ARG" -> <<"ARS", 120>>
          [] c = "COL" -> <<"COP", 25>>]

\* ---------------------------------------------------------------------
\* The random source and the clock
\* ---------------------------------------------------------------------
\* random.choice(seq) on the raw draw r
Choice(seq, r) == seq[(r % Len(seq)) + 1]

\* random.randint(lo, hi) on the raw draw r
RandInt(lo, hi, r) == lo + (r % (hi - lo + 1))

\* random.uniform(a, b) = a + (b - a) * random(), in mills; u is random() in
\* 1/10000, so that (b - a) * u is in 1/10000 of a unit and u = 10000 gives b
Uniform(a, b, u) == a * 1000 + ((b - a) * u) \div 10

\* str(uuid.uuid4()) on the raw draw r
Uuid4(r) == "0000000" \o ToString(r % 10) \o "-0000-4000-8000-000000000000"

\* str(uuid.uuid4())[:8]
Uuid8(r) == "0000000" \o ToString(r % 10)

SecondsPerDay == 86400
SecondsPerHour == 3600

\* the delta added instead of subtracted
PlusDelta(dt, days, hours) ==
    LET total == dt[1] * SecondsPerDay + dt[2] + days * SecondsPerDay + hours * SecondsPerHour
    IN  <<total \div SecondsPerDay, total % SecondsPerDay, dt[3]>>

\* datetime - timedelta(days, hours): the microsecond is kept, the seconds borrow
\* from the day
MinusDelta(dt, days, hours) ==
    LET total == dt[1] * SecondsPerDay + dt[2] - days * SecondsPerDay - hours * SecondsPerHour
    IN  <<total \div SecondsPerDay, total % SecondsPerDay, dt[3]>>

\* strftime("%Y-%m-%d %H:%M:%S"): the date and the time to the second
FormatTimestamp(dt) == <<dt[1], dt[2]>>

\* strftime("%Y-%m-%d"): the date alone
FormatDate(dt) == <<dt[1]>>

\* ---------------------------------------------------------------------
\* round(x, 2)
\* ---------------------------------------------------------------------
\* round-half-to-even of whole + rem/unit
HalfEven(whole, rem, unit) ==
    IF 2 * rem > unit \/ (2 * rem = unit /\ whole % 2 = 1) THEN whole + 1 ELSE whole

\* truncation instead of rounding
RoundLocalTrunc(mills) == mills \div 10

\* round(gross_local, 2): mills to cents
RoundLocal(mills) == HalfEven(mills \div 10, mills % 10, 10)

\* the rate applied to the amount already rounded to cents
RoundUsdOfRounded(mills, rate) ==
    LET m    == RoundLocal(mills) * 10
        A    == (m \div 1000) * rate
        B    == (m % 1000) * rate
        low  == (A % 1000) * 1000 + B
    IN  HalfEven((A \div 1000) + (low \div 1000000), low % 1000000, 1000000)

\* round(gross_local * rate, 2): mills times a rate in 1/100000, to cents.
\* mills * rate is in 1/10^8; a cent is 10^6 of them.
RoundUsd(mills, rate) ==
    LET A    == (mills \div 1000) * rate
        B    == (mills % 1000) * rate
        low  == (A % 1000) * 1000 + B
    IN  HalfEven((A \div 1000) + (low \div 1000000), low % 1000000, 1000000)

\* ---------------------------------------------------------------------
\* generate_fan_interaction (lines 22-43)
\* ---------------------------------------------------------------------
\* the identifier without the batch number
FanIdNoBatch(batch_num, r) == "FAN-" \o Uuid8(r)

\* f"FAN-BATCH{batch_num}-{str(uuid.uuid4())[:8]}"
FanId(batch_num, r) == "FAN-BATCH" \o ToString(batch_num) \o "-" \o Uuid8(r)

\* fan_id.lower(): the prefix is the only part with upper-case letters
FanIdLower(batch_num, r) == "fan-batch" \o ToString(batch_num) \o "-" \o Uuid8(r)

\* the conditional dropped: the personal field is always populated
PersonalNoGuard(account_type, value) == value

\* `value if account_type == "VERIFIED_LINKED" else None`
Personal(account_type, value) ==
    IF account_type = "VERIFIED_LINKED" THEN value ELSE None

generate_fan_interaction(d) ==
    LET region       == Choice(REGIONS, d.region)
        country      == Choice(COUNTRIES[region], d.country)
        account_type == Choice(ACCOUNT_TYPES, d.account)
        fan_id       == FanId(d.batch_num, d.r)
    IN  [ kind            |-> "fan",
          interaction_id  |-> Uuid4(d.r + 1),
          fan_id          |-> fan_id,
          session_id      |-> Uuid4(d.r + 2),
          account_type    |-> account_type,
          email           |-> Personal(account_type,
                                       FanIdLower(d.batch_num, d.r) \o "@example.com"),
          first_name      |-> Personal(account_type, Choice(FIRST_NAMES, d.r)),
          last_name       |-> Personal(account_type, Choice(LAST_NAMES, d.r)),
          ip_address      |-> <<RandInt(1, 255, d.r), RandInt(1, 255, d.r + 1),
                                RandInt(1, 255, d.r + 2), RandInt(1, 255, d.r + 3)>>,
          region          |-> region,
          country_code    |-> country,
          event_type      |-> Choice(EVENT_TYPES, d.r),
          event_timestamp |-> FormatTimestamp(MinusDelta(d.now, 0, RandInt(0, 48, d.offset))),
          title_id        |-> Choice(TITLE_IDS, d.r),
          device_type     |-> Choice(DEVICES, d.r) ]

\* ---------------------------------------------------------------------
\* generate_box_office (lines 45-75)
\* ---------------------------------------------------------------------
\* a lookup whose default is the first entry's neighbour instead of ("USD", 1.0)
CurrencyOfWrongDefault(country) ==
    IF country \in DOMAIN currencies THEN currencies[country] ELSE <<"EUR", 108000>>

\* currencies.get(country, ("USD", 1.0))
CurrencyOf(country) ==
    IF country \in DOMAIN currencies THEN currencies[country] ELSE <<"USD", 100000>>

generate_box_office(d) ==
    LET region      == Choice(REGIONS, d.region)
        country     == Choice(COUNTRIES[region], d.country)
        theater     == Choice(THEATERS, d.r)
        tickets     == RandInt(50, 500, d.tickets)
        price       == Uniform(8, 18, d.price)
        cur         == CurrencyOf(country)
        gross_local == tickets * price
    IN  [ kind                |-> "box",
          record_id           |-> Uuid4(d.r),
          title_id            |-> Choice(TITLE_IDS, d.r),
          theater_id          |-> theater[2] \o "-B" \o ToString(d.batch_num),
          theater_name        |-> theater[1],
          theater_region      |-> region,
          theater_country     |-> country,
          report_date         |-> FormatDate(MinusDelta(d.now, RandInt(0, 7, d.offset), 0)),
          tickets_sold        |-> tickets,
          gross_revenue_local |-> RoundLocal(gross_local),
          local_currency      |-> cur[1],
          exchange_rate_usd   |-> cur[2],
          gross_revenue_usd   |-> RoundUsd(gross_local, cur[2]),
          screen_count        |-> RandInt(1, 10, d.r),
          showtime_count      |-> RandInt(3, 15, d.r) ]

\* ---------------------------------------------------------------------
\* One generator call: the draws are made, then the record is returned
\* ---------------------------------------------------------------------
\* instants at which a record is generated: midnight sharp, mid-day in the middle
\* of a second, the last microsecond of a day
NowSet == {<<10, 0, 0>>, <<10, 43200, 500000>>, <<10, 86399, 999999>>}

\* raw draws of random.randint(50, 500): both ends and MaxTickets values between
TicketDraws == {0, 450} \cup {(k * 87 + 1) % 451 : k \in 0..(MaxTickets - 1)}

\* raw draws of random(), in 1/10000: both ends and MaxPrices values between
PriceDraws == {0, 10000} \cup {(k * 4344 + 1) % 10001 : k \in 0..(MaxPrices - 1)}

FanDraws ==
    [ kind : {"fan"}, batch_num : 1..MaxBatchNum, region : 0..3, country : 0..3,
      account : 0..1, r : 0..MaxDraw, offset : 0..48, now : NowSet ]

BoxDraws ==
    [ kind : {"box"}, batch_num : 1..MaxBatchNum, region : 0..3, country : 0..3,
      tickets : TicketDraws, price : PriceDraws, r : 0..MaxDraw, offset : 0..7,
      now : NowSet ]

\* country codes handed to the currency lookup: the tabulated ones and some that
\* are not
LookupCodes == DOMAIN currencies \cup {"CHN", "ITA", "usa", ""}

LookupDraws == [ kind : {"lookup"}, country : LookupCodes ]

\* no arguments: load_batch has not been called
NoArgs == [batch_num |-> 0, fan_count |-> 0, box_office_count |-> 0]

\* the loader at rest, before main is entered
LoaderInit ==
    /\ pc = "main"
    /\ conn = "none"
    /\ cursors = 0
    /\ batch = 0
    /\ args = NoArgs
    /\ idx = 0
    /\ log = <<>>
    /\ landed = <<>>
    /\ fan_count_total = -1
    /\ fact_count = -1
    /\ ret = <<>>
    /\ events = <<>>
    /\ failed = <<>>

GenInit ==
    /\ DashOff
    /\ draw \in FanDraws \cup BoxDraws \cup LookupDraws
    /\ record = NoRecord
    /\ LoaderInit

GenerateFan ==
    /\ record.kind = "none"
    /\ draw.kind = "fan"
    /\ record' = generate_fan_interaction(draw)
    /\ UNCHANGED <<dashVars, draw, pc, conn, cursors, batch, args, idx, log, landed, fan_count_total,
                   fact_count, ret, events, failed>>

GenerateBox ==
    /\ record.kind = "none"
    /\ draw.kind = "box"
    /\ record' = generate_box_office(draw)
    /\ UNCHANGED <<dashVars, draw, pc, conn, cursors, batch, args, idx, log, landed, fan_count_total,
                   fact_count, ret, events, failed>>

\* the lookup of line 57 on its own
LookupCurrency ==
    /\ record.kind = "none"
    /\ draw.kind = "lookup"
    /\ record' = [kind |-> "lookup", country |-> draw.country, pair |-> CurrencyOf(draw.country)]
    /\ UNCHANGED <<dashVars, draw, pc, conn, cursors, batch, args, idx, log, landed, fan_count_total,
                   fact_count, ret, events, failed>>

GenNext == GenerateFan \/ GenerateBox \/ LookupCurrency

SpecGen == GenInit /\ [][GenNext]_vars

\* =====================================================================
\* The lineage graph drawn by the dashboard (app_sis.py, lines 166-188)
\* =====================================================================
\* the layout coordinates x, y of a node are left out
nodes ==
    << [id |-> "RAW_FAN",    label |-> "RAW_FAN_INTERACTIONS",      layer |-> "BRONZE"],
       [id |-> "RAW_TITLE",  label |-> "RAW_TITLE_METADATA",        layer |-> "BRONZE"],
       [id |-> "RAW_BOX",    label |-> "RAW_BOX_OFFICE",            layer |-> "BRONZE"],
       [id |-> "STG_FANS",   label |-> "DT_STG_FANS_UNIFIED",       layer |-> "SILVER"],
       [id |-> "STG_TITLES", label |-> "DT_STG_TITLES_PARSED",      layer |-> "SILVER"],
       [id |-> "STG_BOX",    label |-> "DT_STG_BOX_OFFICE_DEDUP",   layer |-> "SILVER"],
       [id |-> "INT_FANS",   label |-> "DT_INT_FANS_ENRICHED",      layer |-> "SILVER"],
       [id |-> "INT_PERF",   label |-> "DT_INT_DAILY_PERFORMANCE",  layer |-> "SILVER"],
       [id |-> "DIM_FANS",   label |-> "DT_DIM_FANS",               layer |-> "GOLD"],
       [id |-> "DIM_TITLES", label |-> "DT_DIM_TITLES",             layer |-> "GOLD"],
       [id |-> "FACT",       label |-> "DT_FACT_DAILY_PERFORMANCE", layer |-> "GOLD"],
       [id |-> "AGG_FAN",    label |-> "AGG_FAN_LIFETIME_VALUE",    layer |-> "PLATINUM"],
       [id |-> "AGG_FRAN",   label |-> "AGG_FRANCHISE_PERFORMANCE", layer |-> "PLATINUM"] >>

edges ==
    << <<"RAW_FAN", "STG_FANS">>, <<"RAW_TITLE", "STG_TITLES">>, <<"RAW_BOX", "STG_BOX">>,
       <<"STG_FANS", "INT_FANS">>, <<"STG_BOX", "INT_PERF">>, <<"STG_TITLES", "DIM_TITLES">>,
       <<"INT_FANS", "DIM_FANS">>, <<"INT_PERF", "FACT">>, <<"DIM_TITLES", "FACT">>,
       <<"DIM_FANS", "AGG_FAN">>, <<"DIM_TITLES", "AGG_FAN">>, <<"FACT", "AGG_FAN">>,
       <<"FACT", "AGG_FRAN">>, <<"DIM_TITLES", "AGG_FRAN">> >>

\* the node with a given id
NodeOf(id) == CHOOSE n \in {nodes[i] : i \in 1..Len(nodes)} : n.id = id

\* =====================================================================
\* The batch loader (incremental_load.py, lines 77-156)
\* =====================================================================
\* result of a count query: 0 .. MaxCount
MaxCount == 1
\* fan_count and box_office_count of a direct load_batch call: 0 .. MaxFan, 0 .. MaxBox
MaxFan == 2
MaxBox == 2

\* load_batch's defaults (line 77) and what main passes (lines 139-142)
DefaultFanCount == 100
DefaultBoxCount == 50
MainFanCount == 100
MainBoxCount == 50
RangeStart == 1
RangeStop == 11
SleepBelow == 10

RAW_FAN_INTERACTIONS == <<"SONY_DE", "BRONZE", "RAW_FAN_INTERACTIONS">>
RAW_BOX_OFFICE == <<"SONY_DE", "BRONZE", "RAW_BOX_OFFICE">>
DT_DIM_FANS == <<"SONY_DE", "GOLD", "DT_DIM_FANS">>
DT_FACT_DAILY_PERFORMANCE == <<"SONY_DE", "GOLD", "DT_FACT_DAILY_PERFORMANCE">>
V_LAYER_ROW_COUNTS == <<"SONY_DE", "GOVERNANCE", "V_LAYER_ROW_COUNTS">>

\* the list with DT_DIM_TITLES moved behind the table computed from it
refresh_order_titles_late ==
    << <<"SONY_DE", "SILVER", "DT_STG_FANS_UNIFIED">>,
       <<"SONY_DE", "SILVER", "DT_STG_BOX_OFFICE_DEDUP">>,
       <<"SONY_DE", "SILVER", "DT_INT_FANS_ENRICHED">>,
       <<"SONY_DE", "SILVER", "DT_INT_DAILY_PERFORMANCE">>,
       <<"SONY_DE", "GOLD", "DT_DIM_FANS">>,
       <<"SONY_DE", "GOLD", "DT_FACT_DAILY_PERFORMANCE">>,
       <<"SONY_DE", "GOLD", "DT_DIM_TITLES">>,
       <<"SONY_DE", "PLATINUM", "AGG_FAN_LIFETIME_VALUE">>,
       <<"SONY_DE", "PLATINUM", "AGG_FRANCHISE_PERFORMANCE">> >>

\* lines 103-113; a qualified name is the sequence of its dot-separated parts
refresh_order ==
    << <<"SONY_DE", "SILVER", "DT_STG_FANS_UNIFIED">>,
       <<"SONY_DE", "SILVER", "DT_STG_BOX_OFFICE_DEDUP">>,
       <<"SONY_DE", "SILVER", "DT_INT_FANS_ENRICHED">>,
       <<"SONY_DE", "SILVER", "DT_INT_DAILY_PERFORMANCE">>,
       <<"SONY_DE", "GOLD", "DT_DIM_FANS">>,
       <<"SONY_DE", "GOLD", "DT_DIM_TITLES">>,
       <<"SONY_DE", "GOLD", "DT_FACT_DAILY_PERFORMANCE">>,
       <<"SONY_DE", "PLATINUM", "AGG_FAN_LIFETIME_VALUE">>,
       <<"SONY_DE", "PLATINUM", "AGG_FRANCHISE_PERFORMANCE">> >>

\* dt.split('.')[-1]
dt_name(dt) == dt[Len(dt)]

\* the source-file name without the batch number
SourceFileNoBatch(batch_num, what) == "batch_" \o what \o ".json"

\* f"batch_{batch_num}_fans.json", f"batch_{batch_num}_box_office.json"
SourceFile(batch_num, what) == "batch_" \o ToString(batch_num) \o "_" \o what \o ".json"

\* The insert of lines 86-89 and 93-96.  The payload json.dumps(record) is
\* identified by the generator that made the record, its batch_num argument and
\* the record's position in fan_data / box_data.
InsertStmt(table, kind, what, batch_num, i) ==
    [ stmt          |-> "INSERT",
      target        |-> table,
      source_system |-> "INCREMENTAL_LOAD",
      source_file   |-> SourceFile(batch_num, what),
      payload       |-> <<kind, batch_num, i>>,
      result        |-> -1 ]

\* f"ALTER DYNAMIC TABLE {dt} REFRESH" (line 116)
RefreshStmt(dt) ==
    [ stmt |-> "REFRESH", target |-> dt, source_system |-> "", source_file |-> "",
      payload |-> <<>>, result |-> -1 ]

\* "SELECT COUNT(*) FROM ..." with the value fetchone()[0] gave (lines 121-124)
CountStmt(table, v) ==
    [ stmt |-> "COUNT", target |-> table, source_system |-> "", source_file |-> "",
      payload |-> <<>>, result |-> v ]

\* "SELECT * FROM SONY_DE.GOVERNANCE.V_LAYER_ROW_COUNTS ORDER BY LAYER" (line 151)
SummaryStmt ==
    [ stmt |-> "SUMMARY", target |-> V_LAYER_ROW_COUNTS, source_system |-> "",
      source_file |-> "", payload |-> <<>>, result |-> -1 ]

\* snowflake.connector.connect(...) (line 135)
ConnectStmt ==
    [ stmt |-> "CONNECT", target |-> <<>>, source_system |-> "", source_file |-> "",
      payload |-> <<>>, result |-> -1 ]

\* the pair returned in the wrong order
ReturnValueSwapped(a, b) == <<b, a>>

\* `return fan_count_total, fact_count` (line 129)
ReturnValue(a, b) == <<a, b>>

\* a sleep after every batch, the last one too
SleepNeededAlways(b) == b <= SleepBelow

\* `if batch < 10` (line 142)
SleepNeeded(b) == b < SleepBelow

\* the exception swallowed: the process goes on as if the statement had run
RaiseSwallowed(s) ==
    /\ failed' = <<s>>
    /\ UNCHANGED <<pc, events>>

\* An exception raised by a warehouse call is caught nowhere (no try in
\* load_batch or main): the process ends at the call.
Raise(s) ==
    /\ pc' = "crashed"
    /\ failed' = <<s>>
    /\ UNCHANGED events

\* the row a successful insert adds to its landing table
Land(s) ==
    LET key == <<s.target, s.source_system, s.source_file>>
    IN  IF key \in DOMAIN landed
        THEN [landed EXCEPT ![key] = @ + 1]
        ELSE landed @@ (key :> 1)

\* ---- main, line 135 ----------------------------------------------------
Connect ==
    /\ pc = "main"
    /\ \/ /\ conn' = "open"
          /\ batch' = RangeStart
          /\ pc' = "for"
          /\ events' = Append(events, <<"connect">>)
          /\ UNCHANGED failed
       \/ /\ Raise(ConnectStmt)
          /\ UNCHANGED <<conn, batch>>
    /\ UNCHANGED <<dashVars, draw, record, cursors, args, idx, log, landed, fan_count_total,
                   fact_count, ret>>

\* ---- load_batch, lines 77-84: the call, the cursor, fan_data ------------
Enter(a) ==
    /\ args' = a
    /\ cursors' = cursors + 1
    /\ idx' = 0
    /\ log' = <<>>
    /\ fan_count_total' = -1
    /\ fact_count' = -1
    /\ ret' = <<>>
    /\ pc' = "fans"
    /\ events' = Append(events, <<"load_batch", a.batch_num, a.fan_count, a.box_office_count>>)
    /\ UNCHANGED <<dashVars, draw, record, conn, batch, landed, failed>>

\* main, lines 139-140
CallLoadBatch ==
    /\ pc = "for"
    /\ batch < RangeStop
    /\ Enter([batch_num |-> batch, fan_count |-> MainFanCount,
              box_office_count |-> MainBoxCount])

\* a call of load_batch on its own, with the counts given or left to default
DirectCall ==
    /\ pc = "call"
    /\ \E n \in 1..MaxBatchNum :
          \/ \E f \in 0..MaxFan, b \in 0..MaxBox :
                Enter([batch_num |-> n, fan_count |-> f, box_office_count |-> b])
          \/ Enter([batch_num |-> n, fan_count |-> DefaultFanCount,
                    box_office_count |-> DefaultBoxCount])

\* ---- lines 85-89 -------------------------------------------------------
InsertFan ==
    /\ pc = "fans"
    /\ idx < args.fan_count
    /\ LET s == InsertStmt(RAW_FAN_INTERACTIONS, "fan", "fans", args.batch_num, idx + 1)
       IN  \/ /\ log' = Append(log, s)
              /\ landed' = Land(s)
              /\ idx' = idx + 1
              /\ UNCHANGED <<pc, events, failed>>
           \/ /\ Raise(s)
              /\ UNCHANGED <<log, landed, idx>>
    /\ UNCHANGED <<dashVars, draw, record, conn, cursors, batch, args, fan_count_total, fact_count, ret>>

\* ---- line 91: box_data ---------------------------------------------------
GenerateBoxData ==
    /\ pc = "fans"
    /\ idx = args.fan_count
    /\ pc' = "boxes"
    /\ idx' = 0
    /\ UNCHANGED <<dashVars, draw, record, conn, cursors, batch, args, log, landed, fan_count_total,
                   fact_count, ret, events, failed>>

\* ---- lines 92-96 -------------------------------------------------------
InsertBox ==
    /\ pc = "boxes"
    /\ idx < args.box_office_count
    /\ LET s == InsertStmt(RAW_BOX_OFFICE, "box", "box_office", args.batch_num, idx + 1)
       IN  \/ /\ log' = Append(log, s)
              /\ landed' = Land(s)
              /\ idx' = idx + 1
              /\ UNCHANGED <<pc, events, failed>>
           \/ /\ Raise(s)
              /\ UNCHANGED <<log, landed, idx>>
    /\ UNCHANGED <<dashVars, draw, record, conn, cursors, batch, args, fan_count_total, fact_count, ret>>

\* ---- lines 98-113: the prints, refresh_order ------------------------------
StartRefresh ==
    /\ pc = "boxes"
    /\ idx = args.box_office_count
    /\ pc' = "refresh"
    /\ idx' = 0
    /\ UNCHANGED <<dashVars, draw, record, conn, cursors, batch, args, log, landed, fan_count_total,
                   fact_count, ret, events, failed>>

\* ---- lines 115-119 -----------------------------------------------------
Refresh ==
    /\ pc = "refresh"
    /\ idx < Len(refresh_order)
    /\ LET s == RefreshStmt(refresh_order[idx + 1])
       IN  \/ /\ log' = Append(log, s)
              /\ idx' = idx + 1
              /\ UNCHANGED <<pc, events, failed>>
           \/ /\ Raise(s)
              /\ UNCHANGED <<log, idx>>
    /\ UNCHANGED <<dashVars, draw, record, conn, cursors, batch, args, landed, fan_count_total,
                   fact_count, ret>>

\* ---- lines 121-122 -----------------------------------------------------
CountFans ==
    /\ pc = "refresh"
    /\ idx = Len(refresh_order)
    /\ \/ \E v \in 0..MaxCount :
             /\ log' = Append(log, CountStmt(DT_DIM_FANS, v))
             /\ fan_count_total' = v
             /\ pc' = "count"
             /\ UNCHANGED <<events, failed>>
       \/ /\ Raise(CountStmt(DT_DIM_FANS, -1))
          /\ UNCHANGED <<log, fan_count_total>>
    /\ UNCHANGED <<dashVars, draw, record, conn, cursors, batch, args, idx, landed, fact_count, ret>>

\* ---- lines 123-124 -----------------------------------------------------
CountFacts ==
    /\ pc = "count"
    /\ \/ \E v \in 0..MaxCount :
             /\ log' = Append(log, CountStmt(DT_FACT_DAILY_PERFORMANCE, v))
             /\ fact_count' = v
             /\ pc' = "return"
             /\ UNCHANGED <<events, failed>>
       \/ /\ Raise(CountStmt(DT_FACT_DAILY_PERFORMANCE, -1))
          /\ UNCHANGED <<log, fact_count>>
    /\ UNCHANGED <<dashVars, draw, record, conn, cursors, batch, args, idx, landed, fan_count_total,
                   ret>>

\* the return without cursor.close()
ReturnCursorLeftOpen ==
    /\ pc = "return"
    /\ ret' = ReturnValue(fan_count_total, fact_count)
    /\ pc' = "returned"
    /\ events' = Append(events, <<"returned", args.batch_num>>)
    /\ UNCHANGED <<dashVars, draw, record, conn, cursors, batch, args, idx, log, landed,
                   fan_count_total, fact_count, failed>>

\* ---- lines 126-129 -----------------------------------------------------
Return ==
    /\ pc = "return"
    /\ cursors' = cursors - 1
    /\ ret' = ReturnValue(fan_count_total, fact_count)
    /\ pc' = "returned"
    /\ events' = Append(events, <<"returned", args.batch_num>>)
    /\ UNCHANGED <<dashVars, draw, record, conn, batch, args, idx, log, landed, fan_count_total,
                   fact_count, failed>>

\* ---- main, lines 142-144, and the next iteration of line 139 ---------------
Sleep ==
    /\ pc = "returned"
    /\ SleepNeeded(batch)
    /\ events' = Append(events, <<"sleep", 3>>)
    /\ batch' = batch + 1
    /\ pc' = "for"
    /\ UNCHANGED <<dashVars, draw, record, conn, cursors, args, idx, log, landed, fan_count_total,
                   fact_count, ret, failed>>

NoSleep ==
    /\ pc = "returned"
    /\ ~SleepNeeded(batch)
    /\ batch' = batch + 1
    /\ pc' = "for"
    /\ UNCHANGED <<dashVars, draw, record, conn, cursors, args, idx, log, landed, fan_count_total,
                   fact_count, ret, events, failed>>

\* ---- main, lines 146-154: the loop is over ----------------------------------
Summary ==
    /\ pc = "for"
    /\ ~(batch < RangeStop)
    /\ \/ /\ cursors' = cursors + 1
          /\ events' = Append(events, <<"summary">>)
          /\ pc' = "close"
          /\ UNCHANGED failed
       \/ /\ Raise(SummaryStmt)
          /\ UNCHANGED cursors
    /\ UNCHANGED <<dashVars, draw, record, conn, batch, args, idx, log, landed, fan_count_total,
                   fact_count, ret>>

\* ---- main, line 156 ------------------------------------------------------
Close ==
    /\ pc = "close"
    /\ conn' = "closed"
    /\ cursors' = 0
    /\ pc' = "exit"
    /\ events' = Append(events, <<"close">>)
    /\ UNCHANGED <<dashVars, draw, record, batch, args, idx, log, landed, fan_count_total,
                   fact_count, ret, failed>>

LoadBatchNext ==
    \/ InsertFan
    \/ GenerateBoxData
    \/ InsertBox
    \/ StartRefresh
    \/ Refresh
    \/ CountFans
    \/ CountFacts
    \/ Return

\* the generator variables while the loader runs
GenIdle ==
    /\ draw = [kind |-> "none"]
    /\ record = NoRecord

Init ==
    /\ GenIdle
    /\ LoaderInit
    /\ DashOff

Next ==
    \/ Connect
    \/ CallLoadBatch
    \/ LoadBatchNext
    \/ Sleep
    \/ NoSleep
    \/ Summary
    \/ Close

\* a run of main
Spec == Init /\ [][Next]_vars

\* one call of load_batch on an open connection
LoadInit ==
    /\ GenIdle
    /\ DashOff
    /\ pc = "call"
    /\ conn = "open"
    /\ cursors = 0
    /\ batch = 0
    /\ args = NoArgs
    /\ idx = 0
    /\ log = <<>>
    /\ landed = <<>>
    /\ fan_count_total = -1
    /\ fact_count = -1
    /\ ret = <<>>
    /\ events = <<>>
    /\ failed = <<>>

LoadNext == DirectCall \/ LoadBatchNext

SpecLoad == LoadInit /\ [][LoadNext]_vars

\* =====================================================================
\* The dashboards (streamlit_app/app.py, streamlit_app/app_sis.py)
\* =====================================================================
\* A session is a sequence of script runs.  A run executes the script from the
\* top: it issues its queries in the order of the source, and an exception that
\* no handler catches ends it.  The display calls (st.metric, st.dataframe,
\* st.plotly_chart, ...) are taken not to raise.

\* number of script runs in a session
MaxRuns == 4
\* number of rows of the data-quality view
MaxChecks == 3
\* largest violation count of a row
MaxViolation == 2

\* the queries, by the object they read
Q_ROW_COUNTS == "V_LAYER_ROW_COUNTS"
Q_DATA_QUALITY == "V_DATA_QUALITY_DASHBOARD"
Q_STREAM == "SYSTEM$STREAM_HAS_DATA"
Q_TASK_HISTORY == "TASK_HISTORY"
Q_SHOW_TASKS == "SHOW TASKS"
Q_DT_STATUS == "AGG_ROW_COUNTS"

\* ---- tab2, lines 75-88 of app.py (63-76 of app_sis.py) -------------------
\* a VIOLATION_COUNT cell: <<>> for NULL (NaN in the frame), <<v>> for the number v
Cells == {<<>>} \cup {<<v>> : v \in 0..MaxViolation}

\* the result sets of the data-quality view: the VIOLATION_COUNT column
ResultSets == UNION {[1..n -> Cells] : n \in 0..MaxChecks}

\* a comparison that takes a missing count for zero
ViolationIsZeroOrNull(x) == x = <<0>> \/ x = <<>>

\* `x == 0` on a cell: NaN compares unequal to 0
ViolationIsZero(x) == x = <<0>>

total_checks(dq_results) == Len(dq_results)

passing(dq_results) == Len(SelectSeq(dq_results, ViolationIsZero))

failing(dq_results) == total_checks(dq_results) - passing(dq_results)

\* st.success or st.error
Banner(n) == IF n = 0 THEN "success" ELSE "error"

\* the STATUS lambda: the label and, for FAIL, the interpolated value
STATUS(x) == IF ViolationIsZero(x) THEN <<"PASS">> ELSE <<"FAIL", x>>

\* tab2 has not run
NoDq == [kind |-> "none"]

\* everything tab2 computes from dq_results
Summarise(dq_results) ==
    [ kind         |-> "dq",
      dq_results   |-> dq_results,
      total_checks |-> total_checks(dq_results),
      passing      |-> passing(dq_results),
      failing      |-> failing(dq_results),
      banner       |-> Banner(failing(dq_results)),
      STATUS       |-> [i \in 1..Len(dq_results) |-> STATUS(dq_results[i])] ]

\* ---- get_connection / run_query ------------------------------------------
\* the handle get_connection returns: the cached one, or the one connect()
\* opens; app_sis.py uses the active session, handle 0
get_connection(v, c, n) ==
    IF v = "app" THEN (IF c = <<>> THEN n + 1 ELSE c[1]) ELSE 0

Outcomes == {"ok", "connect_raises", "query_raises"}

\* run_query(q): get_connection(), then the query on the handle
run_query(q, outcome) ==
    /\ (outcome = "connect_raises") => (variant = "app" /\ cache = <<>>)
    /\ IF variant = "app" /\ cache = <<>>
       THEN /\ connects' = connects + 1
            /\ IF outcome = "connect_raises"
               THEN UNCHANGED <<cache, handles>>
               ELSE /\ handles' = handles + 1
                    /\ cache' = <<handles + 1>>
       ELSE UNCHANGED <<connects, cache, handles>>
    /\ qlog' = Append(qlog,
                      [ q      |-> q,
                        handle |-> IF outcome = "connect_raises"
                                   THEN -1
                                   ELSE get_connection(variant, cache, handles),
                        ok     |-> outcome = "ok" ])

\* an uncaught exception ends the run
Stop ==
    /\ dpc' = "stopped"
    /\ UNCHANGED rendered

\* ---- the script, top to bottom -------------------------------------------
Tab1 ==
    /\ dpc = "tab1"
    /\ \E o \in Outcomes :
          /\ run_query(Q_ROW_COUNTS, o)
          /\ IF o = "ok"
             THEN /\ rendered' = rendered \cup {"overview"}
                  /\ dpc' = "tab2"
             ELSE Stop
    /\ UNCHANGED <<genVars, loadVars, variant, runs, trigger, presses, clears, stale, dq>>

Tab2 ==
    /\ dpc = "tab2"
    /\ \E o \in Outcomes :
          /\ run_query(Q_DATA_QUALITY, o)
          /\ IF o = "ok"
             THEN /\ \E dq_results \in ResultSets : dq' = Summarise(dq_results)
                  /\ rendered' = rendered \cup {"data_quality"}
                  /\ dpc' = "stream"
             ELSE /\ Stop
                  /\ UNCHANGED dq
    /\ UNCHANGED <<genVars, loadVars, variant, runs, trigger, presses, clears, stale>>

StreamStatus ==
    /\ dpc = "stream"
    /\ \E o \in Outcomes :
          /\ run_query(Q_STREAM, o)
          /\ IF o = "ok"
             THEN /\ rendered' = rendered \cup {"stream_status"}
                  /\ dpc' = "task"
             ELSE Stop
    /\ UNCHANGED <<genVars, loadVars, variant, runs, trigger, presses, clears, stale, dq>>

\* the handler that leaves the alternate query out
AfterCaughtSkip(v) == "dt"

\* where `except Exception:` continues: app.py issues the alternate query,
\* app_sis.py shows a constant and goes on
AfterCaught(v) == IF v = "app" THEN "fallback" ELSE "dt"

TaskStatus ==
    /\ dpc = "task"
    /\ \E o \in Outcomes :
          /\ run_query(Q_TASK_HISTORY, o)
          /\ IF o = "ok"
             THEN /\ rendered' = rendered \cup {"task_status"}
                  /\ dpc' = "dt"
             ELSE /\ dpc' = AfterCaught(variant)
                  /\ rendered' = IF variant = "app"
                                 THEN rendered
                                 ELSE rendered \cup {"task_status"}
    /\ UNCHANGED <<genVars, loadVars, variant, runs, trigger, presses, clears, stale, dq>>

\* app.py, lines 152-160
ShowTasks ==
    /\ dpc = "fallback"
    /\ \E o \in Outcomes :
          /\ run_query(Q_SHOW_TASKS, o)
          /\ IF o = "ok"
             THEN /\ rendered' = rendered \cup {"task_status"}
                  /\ dpc' = "dt"
             ELSE Stop
    /\ UNCHANGED <<genVars, loadVars, variant, runs, trigger, presses, clears, stale, dq>>

\* Dynamic Table Status, then tab4 and tab5, which issue no query
DtStatus ==
    /\ dpc = "dt"
    /\ \E o \in Outcomes :
          /\ run_query(Q_DT_STATUS, o)
          /\ IF o = "ok"
             THEN /\ rendered' = rendered \cup {"dt_status", "lineage", "tests"}
                  /\ dpc' = "sidebar"
             ELSE Stop
    /\ UNCHANGED <<genVars, loadVars, variant, runs, trigger, presses, clears, stale, dq>>

\* a script run starts
StartRun(t) ==
    /\ runs' = runs + 1
    /\ trigger' = t
    /\ dpc' = "tab1"
    /\ qlog' = <<>>
    /\ rendered' = {}
    /\ dq' = NoDq

\* a clear that leaves the cached handle in place
ClearCacheNothing(c) == c

\* st.cache_resource.clear()
ClearCache(c) == <<>>

\* the button returned True: clear, then st.rerun()
SidebarRefresh ==
    /\ dpc = "sidebar"
    /\ trigger = "click"
    /\ clears' = clears + 1
    /\ stale' = cache
    /\ cache' = IF variant = "app" THEN ClearCache(cache) ELSE cache
    /\ StartRun("rerun")
    /\ UNCHANGED <<genVars, loadVars, variant, handles, connects, presses>>

\* the button returned False: the rest of the sidebar is rendered
SidebarRest ==
    /\ dpc = "sidebar"
    /\ trigger # "click"
    /\ rendered' = rendered \cup {"sidebar"}
    /\ dpc' = "idle"
    /\ UNCHANGED <<genVars, loadVars, variant, runs, trigger, cache, handles, connects,
                   presses, clears, stale, qlog, dq>>

\* ---- the user ------------------------------------------------------------
\* 'Refresh Data' is pressed: the script runs with the button returning True
ClickRefresh ==
    /\ dpc = "idle"
    /\ runs + 1 < MaxRuns
    /\ presses' = presses + 1
    /\ StartRun("click")
    /\ UNCHANGED <<genVars, loadVars, variant, cache, handles, connects, clears, stale>>

\* the script is run again without the button (the Rerun command)
PlainRerun ==
    /\ dpc \in {"idle", "stopped"}
    /\ runs < MaxRuns
    /\ StartRun("plain")
    /\ UNCHANGED <<genVars, loadVars, variant, cache, handles, connects, presses, clears,
                   stale>>

DashInit ==
    /\ GenIdle
    /\ LoaderInit
    /\ variant \in {"app", "app_sis"}
    /\ dpc = "tab1"
    /\ runs = 1
    /\ trigger = "load"
    /\ cache = <<>>
    /\ handles = 0
    /\ connects = 0
    /\ presses = 0
    /\ clears = 0
    /\ stale = <<>>
    /\ qlog = <<>>
    /\ rendered = {}
    /\ dq = NoDq

DashNext ==
    \/ Tab1
    \/ Tab2
    \/ StreamStatus
    \/ TaskStatus
    \/ ShowTasks
    \/ DtStatus
    \/ SidebarRefresh
    \/ SidebarRest
    \/ ClickRefresh
    \/ PlainRerun

\* a session of one of the dashboards
SpecDash == DashInit /\ [][DashNext]_vars

\* =====================================================================
\* Properties of the generators
\* =====================================================================
IsFan == record.kind = "fan"
IsBox == record.kind = "box"

\* the values the draws of the call in progress stand for
DrawnTickets == RandInt(50, 500, draw.tickets)
DrawnPrice == Uniform(8, 18, draw.price)
DrawnNowSeconds == draw.now[1] * SecondsPerDay + draw.now[2]

Abs(x) == IF x < 0 THEN -x ELSE x

\* C1: in every fan record email, first_name and last_name are all non-null
\* if and only if account_type is VERIFIED_LINKED, and all three are null when
\* account_type is GUEST.
C1_PersonalIffVerified ==
    IsFan =>
        /\ record.account_type \in {"VERIFIED_LINKED", "GUEST"}
        /\ (record.email # None /\ record.first_name # None /\ record.last_name # None)
              <=> record.account_type = "VERIFIED_LINKED"
        /\ record.account_type = "GUEST" =>
              (record.email = None /\ record.first_name = None /\ record.last_name = None)

C1_Witness ==
    /\ IsFan
    /\ record.account_type = "GUEST"
    /\ record.email = None

\* C2 as claimed: gross_revenue_usd is the record's own rounded
\* gross_revenue_local times the record's exchange_rate_usd, rounded to cents.
C2_UsdFromRoundedLocal ==
    IsBox =>
        record.gross_revenue_usd
            = RoundUsdOfRounded(record.gross_revenue_local * 10, record.exchange_rate_usd)

\* C2 amended: gross_revenue_usd is the unrounded product tickets * price
\* times the record's exchange_rate_usd, rounded to cents; it is within one cent
\* of the value computed from the rounded gross_revenue_local.
C2_UsdFromUnroundedLocal ==
    IsBox =>
        LET exact == DrawnTickets * DrawnPrice
            rate  == record.exchange_rate_usd
            A     == (exact \div 1000) * rate
            B     == (exact % 1000) * rate
            hi    == (A \div 1000) + (((A % 1000) * 1000 + B) \div 1000000)
            lo    == ((A % 1000) * 1000 + B) % 1000000
            usd   == record.gross_revenue_usd
        IN  \* usd is a cent nearest to the exact value hi + lo / 10^6 (ties to even)
            /\ usd \in {hi, hi + 1}
            /\ usd = hi     => (2 * lo < 1000000 \/ (2 * lo = 1000000 /\ hi % 2 = 0))
            /\ usd = hi + 1 => (2 * lo > 1000000 \/ (2 * lo = 1000000 /\ hi % 2 = 1))
            /\ Abs(usd - RoundUsdOfRounded(record.gross_revenue_local * 10, rate)) <= 1

\* a record in which the two computations differ
C2_Witness ==
    /\ IsBox
    /\ record.gross_revenue_usd
         # RoundUsdOfRounded(record.gross_revenue_local * 10, record.exchange_rate_usd)

\* C3: gross_revenue_local is tickets_sold (in 50..500) times the sampled
\* unit price (in [8, 18]), rounded to 2 decimal places: the cent nearest to
\* the product.
C3_LocalIsRoundedProduct ==
    IsBox =>
        LET exact == record.tickets_sold * DrawnPrice
            local == record.gross_revenue_local
        IN  /\ record.tickets_sold = DrawnTickets
            /\ record.tickets_sold \in 50..500
            /\ DrawnPrice \in 8000..18000
            /\ 2 * Abs(local * 10 - exact) <= 10
            /\ 2 * Abs(local * 10 - exact) = 10 => local % 2 = 0

\* a record whose product is not a whole number of cents and is rounded up
C3_Witness ==
    /\ IsBox
    /\ (record.tickets_sold * DrawnPrice) % 10 > 5
    /\ record.gross_revenue_local * 10 > record.tickets_sold * DrawnPrice

\* C9: the lookup returns the tabulated pair for each of the 14 tabulated
\* codes and ("USD", 1.0) for any other code; every code COUNTRIES can yield is
\* tabulated, so a box-office record carries the tabulated pair of its
\* theater_country.
C9_CurrencyLookup ==
    /\ Cardinality(DOMAIN currencies) = 14
    /\ \A r \in DOMAIN COUNTRIES : \A i \in 1..Len(COUNTRIES[r]) :
          COUNTRIES[r][i] \in DOMAIN currencies
    /\ record.kind = "lookup" =>
          IF record.country \in DOMAIN currencies
          THEN record.pair = currencies[record.country]
          ELSE record.pair = <<"USD", 100000>>
    /\ IsBox =>
          /\ record.theater_country \in DOMAIN currencies
          /\ <<record.local_currency, record.exchange_rate_usd>>
               = currencies[record.theater_country]

\* the lookup has been applied to a code that is not tabulated
C9_Witness ==
    /\ record.kind = "lookup"
    /\ record.country \notin DOMAIN currencies
    /\ record.pair = <<"USD", 100000>>

\* a <= b for datetimes <<day, second, microsecond>>
DtLeq(a, b) ==
    \/ a[1] < b[1]
    \/ a[1] = b[1] /\ a[2] < b[2]
    \/ a[1] = b[1] /\ a[2] = b[2] /\ a[3] <= b[3]

\* C10 as claimed: report_date (the instant the date names) lies within 7
\* days before the generation instant, and event_timestamp within 48 hours
\* before it; neither is later than the generation instant.
C10_WithinWindowOfInstant ==
    /\ IsBox =>
          LET at == <<record.report_date[1], 0, 0>>
          IN  DtLeq(MinusDelta(draw.now, 7, 0), at) /\ DtLeq(at, draw.now)
    /\ IsFan =>
          LET at == <<record.event_timestamp[1], record.event_timestamp[2], 0>>
          IN  DtLeq(MinusDelta(draw.now, 0, 48), at) /\ DtLeq(at, draw.now)

\* C10 amended: report_date is a calendar day 0 to 7 days before the day of
\* generation; event_timestamp is a whole second that lies a whole number of
\* hours, 0 to 48, before the second of generation; neither is later than the
\* generation instant, and each is earlier than the window's start by less than
\* the unit its format drops (a day, a second).
C10_WithinWindowTruncated ==
    /\ IsBox =>
          LET at == <<record.report_date[1], 0, 0>>
          IN  /\ draw.now[1] - record.report_date[1] \in 0..7
              /\ DtLeq(at, draw.now)
              /\ ~DtLeq(at, MinusDelta(draw.now, 8, 0))
    /\ IsFan =>
          LET at   == <<record.event_timestamp[1], record.event_timestamp[2], 0>>
              secs == record.event_timestamp[1] * SecondsPerDay + record.event_timestamp[2]
          IN  /\ record.event_timestamp[2] \in 0..(SecondsPerDay - 1)
              /\ (DrawnNowSeconds - secs) % SecondsPerHour = 0
              /\ (DrawnNowSeconds - secs) \div SecondsPerHour \in 0..48
              /\ DtLeq(at, draw.now)
              /\ DtLeq(MinusDelta(draw.now, 0, 48), <<at[1], at[2], 999999>>)

\* a fan record whose timestamp is more than 48 hours before the instant
C10_Witness ==
    /\ IsFan
    /\ ~DtLeq(MinusDelta(draw.now, 0, 48),
              <<record.event_timestamp[1], record.event_timestamp[2], 0>>)

\* =====================================================================
\* Properties of the loader
\* =====================================================================
\* positions of the log at which the dynamic table called name is refreshed
RefreshedAt(name) ==
    {i \in 1..Len(log) : log[i].stmt = "REFRESH" /\ dt_name(log[i].target) = name}

\* names of the dynamic tables load_batch refreshes
RefreshedNames == {dt_name(refresh_order[i]) : i \in 1..Len(refresh_order)}

\* the lineage edges, as pairs of table names, between two refreshed tables
RefreshedEdges ==
    {e \in {<<NodeOf(edges[i][1]).label, NodeOf(edges[i][2]).label>> : i \in 1..Len(edges)} :
        e[1] \in RefreshedNames /\ e[2] \in RefreshedNames}

\* C4: for every lineage edge (u, v) between two of the nine refreshed
\* tables, u is refreshed strictly before v within the batch: whenever v has been
\* refreshed, u was refreshed at an earlier position, and a completed batch has
\* refreshed both.
C4_RefreshRespectsLineage ==
    \A e \in RefreshedEdges :
        /\ \A j \in RefreshedAt(e[2]) : \E i \in RefreshedAt(e[1]) : i < j
        /\ pc = "returned" => (RefreshedAt(e[1]) # {} /\ RefreshedAt(e[2]) # {})

\* a completed batch, with the ten edges the claim is about
C4_Witness ==
    /\ pc = "returned"
    /\ Cardinality(RefreshedEdges) = 10
    /\ \A n \in RefreshedNames : RefreshedAt(n) # {}

\* statements of the log of one kind into one target
StmtsOf(kind, target) ==
    {i \in 1..Len(log) : log[i].stmt = kind /\ log[i].target = target}

\* C5: the log of a load_batch call is, in this order, the fan inserts,
\* the box-office inserts, the nine refreshes in the order of refresh_order (each
\* once), the count on DT_DIM_FANS and the count on DT_FACT_DAILY_PERFORMANCE; no
\* insert follows a statement that is not an insert; the call returns the pair of
\* the two counts' results.
C5_StatementOrder ==
    LET f == args.fan_count
        b == args.box_office_count
        n == Len(refresh_order)
    IN  /\ n = 9
        /\ Len(log) <= f + b + n + 2
        /\ \A i \in 1..Len(log) :
              /\ i <= f => (log[i].stmt = "INSERT" /\ log[i].target = RAW_FAN_INTERACTIONS)
              /\ (f < i /\ i <= f + b) =>
                    (log[i].stmt = "INSERT" /\ log[i].target = RAW_BOX_OFFICE)
              /\ (f + b < i /\ i <= f + b + n) =>
                    (log[i].stmt = "REFRESH" /\ log[i].target = refresh_order[i - f - b])
              /\ i = f + b + n + 1 => (log[i].stmt = "COUNT" /\ log[i].target = DT_DIM_FANS)
              /\ i = f + b + n + 2 =>
                    (log[i].stmt = "COUNT" /\ log[i].target = DT_FACT_DAILY_PERFORMANCE)
              /\ (i > 1 /\ log[i].stmt = "INSERT") => log[i - 1].stmt = "INSERT"
        /\ pc = "returned" =>
              /\ Len(log) = f + b + n + 2
              /\ ret = <<log[f + b + n + 1].result, log[f + b + n + 2].result>>

\* a call that returned two different counts after inserts of both kinds
C5_Witness ==
    /\ pc = "returned"
    /\ args.fan_count > 0
    /\ args.box_office_count > 0
    /\ ret[1] # ret[2]

\* rows landed in a table from a source file
LandedRows(table, file) ==
    LET key == <<table, "INCREMENTAL_LOAD", file>>
    IN  IF key \in DOMAIN landed THEN landed[key] ELSE 0

\* C6: a successful load_batch(conn, N, f, b) issues exactly f inserts
\* into RAW_FAN_INTERACTIONS and b into RAW_BOX_OFFICE (150 for the defaults), one
\* per generated record, each with source system INCREMENTAL_LOAD and source file
\* batch_N_fans.json, batch_N_box_office.json.
C6_InsertCounts ==
    LET fans     == StmtsOf("INSERT", RAW_FAN_INTERACTIONS)
        boxes    == StmtsOf("INSERT", RAW_BOX_OFFICE)
        N        == ToString(args.batch_num)
        fanFile  == "batch_" \o N \o "_fans.json"
        boxFile  == "batch_" \o N \o "_box_office.json"
    IN  /\ \A i \in fans :
              /\ log[i].source_system = "INCREMENTAL_LOAD"
              /\ log[i].source_file = fanFile
              /\ log[i].payload[1] = "fan" /\ log[i].payload[2] = args.batch_num
        /\ \A i \in boxes :
              /\ log[i].source_system = "INCREMENTAL_LOAD"
              /\ log[i].source_file = boxFile
              /\ log[i].payload[1] = "box" /\ log[i].payload[2] = args.batch_num
        /\ pc = "returned" =>
              /\ Cardinality(fans) = args.fan_count
              /\ Cardinality(boxes) = args.box_office_count
              /\ {i \in 1..Len(log) : log[i].stmt = "INSERT"} = fans \cup boxes
              /\ {log[i].payload[3] : i \in fans} = 1..args.fan_count
              /\ {log[i].payload[3] : i \in boxes} = 1..args.box_office_count
              /\ LandedRows(RAW_FAN_INTERACTIONS, fanFile) = args.fan_count
              /\ LandedRows(RAW_BOX_OFFICE, boxFile) = args.box_office_count
              /\ (args.fan_count = 100 /\ args.box_office_count = 50) =>
                    Cardinality(fans \cup boxes) = 150

\* a call with the default counts has returned
C6_Witness ==
    /\ pc = "returned"
    /\ args.fan_count = 100
    /\ args.box_office_count = 50
    /\ Cardinality({i \in 1..Len(log) : log[i].stmt = "INSERT"}) = 150

\* what main does, in order, when no call fails: event number i
ExpectedEvent(i) ==
    IF i = 1 THEN <<"connect">>
    ELSE IF i <= 28 THEN
        LET k == ((i - 2) \div 3) + 1
        IN  CASE (i - 2) % 3 = 0 -> <<"load_batch", k, 100, 50>>
              [] (i - 2) % 3 = 1 -> <<"returned", k>>
              [] (i - 2) % 3 = 2 -> <<"sleep", 3>>
    ELSE IF i = 29 THEN <<"load_batch", 10, 100, 50>>
    ELSE IF i = 30 THEN <<"returned", 10>>
    ELSE IF i = 31 THEN <<"summary">>
    ELSE <<"close">>

\* C7: a run of main with no failing call executes batches 1 to 10 in
\* increasing order, each with 100 fan and 50 box-office records, a batch starting
\* only after the one before has returned with both counts fetched; it sleeps after
\* each of batches 1..9 and not after batch 10; the summary query follows batch 10,
\* and the run then ends.
C7_TenBatches ==
    /\ Len(events) <= 32
    /\ \A i \in 1..Len(events) : events[i] = ExpectedEvent(i)
    /\ pc = "returned" => (fan_count_total >= 0 /\ fact_count >= 0 /\ Len(ret) = 2)
    /\ pc = "exit" =>
          /\ Len(events) = 32
          /\ Cardinality({i \in 1..Len(events) : events[i][1] = "sleep"}) = 9
          /\ Cardinality({i \in 1..Len(events) : events[i][1] = "load_batch"}) = 10
          /\ failed = <<>>
          /\ ~ENABLED Next

C7_Witness ==
    /\ pc = "exit"
    /\ failed = <<>>
    /\ Len(events) = 32

\* rows landed by batch k in a table
BatchRows(table, what, k) ==
    LandedRows(table, "batch_" \o ToString(k) \o "_" \o what \o ".json")

\* the landing tables hold the rows of the inserts that succeeded, and no others
LandedIsWhatSucceeded ==
    /\ \A k \in 1..10 :
          /\ BatchRows(RAW_FAN_INTERACTIONS, "fans", k) =
                (IF k < args.batch_num THEN 100
                 ELSE IF k = args.batch_num
                      THEN Cardinality(StmtsOf("INSERT", RAW_FAN_INTERACTIONS))
                      ELSE 0)
          /\ BatchRows(RAW_BOX_OFFICE, "box_office", k) =
                (IF k < args.batch_num THEN 50
                 ELSE IF k = args.batch_num
                      THEN Cardinality(StmtsOf("INSERT", RAW_BOX_OFFICE))
                      ELSE 0)
    /\ Cardinality(DOMAIN landed) <= 20

\* C8: when a warehouse call raises, the run ends at that call: the
\* statement is not retried and nothing further is issued (no step leaves a state
\* in which a call has raised), nothing is deleted (the landing tables never
\* shrink, and only inserts, refreshes and counts are ever logged), and the landing
\* tables keep exactly the rows inserted before the failure.
C8_FailureEndsRun ==
    /\ [](/\ (failed # <<>>) <=> (pc = "crashed")
          /\ \A i \in 1..Len(log) : log[i].stmt \in {"INSERT", "REFRESH", "COUNT"}
          /\ LandedIsWhatSucceeded
          /\ pc = "crashed" => ~ENABLED Next)
    /\ [][/\ failed = <<>>
          /\ \A key \in DOMAIN landed :
                key \in DOMAIN landed' /\ landed'[key] >= landed[key]]_vars

\* an insert raised in the middle of a batch: the batch is partially landed
C8_Witness ==
    /\ pc = "crashed"
    /\ failed[1].stmt = "INSERT"
    /\ args.batch_num = 2
    /\ BatchRows(RAW_FAN_INTERACTIONS, "fans", 2) = 100
    /\ BatchRows(RAW_BOX_OFFICE, "box_office", 2) \in 1..49

\* number of events of one kind in main's history
EventCount(kind) == Cardinality({i \in 1..Len(events) : events[i][1] = kind})

\* main has ended, by its last line or by an exception
Terminated == pc \in {"exit", "crashed"}

\* positions inside load_batch
InLoadBatch == pc \in {"fans", "boxes", "refresh", "count", "return"}

\* C13 as claimed, for a run that has opened its connection: when main
\* has ended, the connection has been closed exactly once.
C13_ClosedOnceInEveryRun ==
    (Terminated /\ EventCount("connect") = 1) => EventCount("close") = 1

\* C13 amended: main opens at most one connection, and exactly one in a
\* run in which no call raises; every statement is issued while that connection
\* is open; a run in which no call raises closes it exactly once, as its last
\* act and after the summary query, and a run in which a call raises never closes
\* it; nothing is issued after the close.  A load_batch call holds exactly one
\* cursor from its entry on and has closed it when it has returned.
C13_OneConnection ==
    /\ [](/\ EventCount("connect") <= 1
          /\ EventCount("close") <= 1
          /\ (conn = "open") <=> (EventCount("connect") = 1 /\ EventCount("close") = 0)
          /\ (conn = "closed") <=> (EventCount("close") = 1)
          /\ InLoadBatch => (conn = "open" /\ cursors = 1)
          /\ pc = "returned" => (conn = "open" /\ cursors = 0)
          /\ pc = "exit" =>
                /\ EventCount("connect") = 1
                /\ EventCount("close") = 1
                /\ events[Len(events)] = <<"close">>
                /\ events[Len(events) - 1] = <<"summary">>
                /\ conn = "closed"
                /\ ~ENABLED Next
          /\ pc = "crashed" => EventCount("close") = 0)
    /\ [][/\ (log' # log \/ EventCount("summary")' # EventCount("summary")) =>
                (conn = "open" /\ conn' = "open")
          /\ conn # "closed"]_vars

\* a run that ended normally: one connection, closed once
C13_Witness ==
    /\ pc = "exit"
    /\ conn = "closed"
    /\ EventCount("connect") = 1
    /\ EventCount("load_batch") = 10

\* ---------------------------------------------------------------------
\* C14: every generated record draws its enumerated fields from the lookup
\* tables: region in REGIONS and country one of COUNTRIES[region] of the same
\* region (fan and box-office records), event_type in EVENT_TYPES, device_type
\* in DEVICES, title_id in TITLE_IDS, theater_name and the theater_id prefix the
\* two components of one THEATERS entry; fan_id and theater_id are non-empty and
\* embed the batch number of the call.
\* ---------------------------------------------------------------------
Range(seq) == {seq[i] : i \in DOMAIN seq}

HexPrefixes == {"0000000" \o ToString(u) : u \in 0..9}

C14_FieldsFromLookupTables ==
    /\ IsFan =>
        /\ record.region \in Range(REGIONS)
        /\ record.country_code \in Range(COUNTRIES[record.region])
        /\ record.event_type \in Range(EVENT_TYPES)
        /\ record.device_type \in Range(DEVICES)
        /\ record.title_id \in Range(TITLE_IDS)
        /\ record.fan_id # ""
        /\ \E h \in HexPrefixes :
              record.fan_id = "FAN-BATCH" \o ToString(draw.batch_num) \o "-" \o h
    /\ IsBox =>
        /\ record.theater_region \in Range(REGIONS)
        /\ record.theater_country \in Range(COUNTRIES[record.theater_region])
        /\ record.title_id \in Range(TITLE_IDS)
        /\ record.theater_id # ""
        /\ \E t \in Range(THEATERS) :
              /\ record.theater_name = t[1]
              /\ record.theater_id = t[2] \o "-B" \o ToString(draw.batch_num)

C14_Witness ==
    /\ IsBox
    /\ draw.batch_num = 2
    /\ record.theater_name = "Regal Mall Plaza"
    /\ record.theater_id = "THR-101-B2"
    /\ record.theater_region = "Latin America"
    /\ record.theater_country = "COL"

\* ---------------------------------------------------------------------
\* C16: the set of dynamic tables load_batch refreshes is closed under the
\* upstream dependencies of the lineage graph: every dynamic table (a node
\* that is not BRONZE) at the source of a lineage edge into a refreshed table
\* is itself refreshed earlier in the same batch.
\* ---------------------------------------------------------------------
\* the lineage edges whose source is a dynamic table, as pairs of table names
DynamicEdges ==
    {<<NodeOf(edges[i][1]).label, NodeOf(edges[i][2]).label>> :
        i \in {k \in 1..Len(edges) : NodeOf(edges[k][1]).layer # "BRONZE"}}

C16_RefreshClosedUpstream ==
    \A e \in DynamicEdges :
        \A j \in RefreshedAt(e[2]) : \E i \in RefreshedAt(e[1]) : i < j

\* ---------------------------------------------------------------------
\* C15: in the data-quality summary, for every result set, passing is the
\* number of rows whose VIOLATION_COUNT equals 0, failing the number of the
\* remaining rows, passing + failing the total number of checks; the success
\* banner is shown if and only if failing is 0 (an empty result set included);
\* a row's STATUS is PASS if and only if its VIOLATION_COUNT is 0.
\* ---------------------------------------------------------------------
Tab2Done == dq.kind = "dq"

ZeroRows == {i \in 1..Len(dq.dq_results) : dq.dq_results[i] = <<0>>}

C15_QualitySummary ==
    Tab2Done =>
        /\ dq.passing = Cardinality(ZeroRows)
        /\ dq.failing = Cardinality((1..Len(dq.dq_results)) \ ZeroRows)
        /\ dq.passing + dq.failing = Len(dq.dq_results)
        /\ dq.total_checks = Len(dq.dq_results)
        /\ (dq.banner = "success") <=> (dq.failing = 0)
        /\ dq.banner \in {"success", "error"}
        /\ (dq.dq_results = <<>>) => (dq.banner = "success")
        /\ \A i \in 1..Len(dq.dq_results) :
              (dq.STATUS[i][1] = "PASS") <=> (dq.dq_results[i] = <<0>>)
        /\ "data_quality" \in rendered

\* a result set with a zero row, a NULL row and a row with violations
C15_Witness ==
    /\ Tab2Done
    /\ dq.dq_results = << <<0>>, <<>>, <<2>> >>
    /\ dq.passing = 1
    /\ dq.failing = 2
    /\ dq.banner = "error"

\* ---------------------------------------------------------------------
\* C11: in app.py the alternate query SHOW TASKS is issued if and only if the
\* TASK_HISTORY query raised; after the handler, rendering continues with the
\* Dynamic Table Status section and the later tabs; a failure of any other
\* query, the alternate query included, is not caught and ends the run, after
\* which the run renders nothing and issues no query.
\* ---------------------------------------------------------------------
Issued(q) == \E i \in 1..Len(qlog) : qlog[i].q = q

Raised(q) == \E i \in 1..Len(qlog) : qlog[i].q = q /\ ~qlog[i].ok

LaterSections == {"dt_status", "lineage", "tests"}

C11_State ==
    (variant = "app") =>
        /\ (dpc = "fallback") => (Raised(Q_TASK_HISTORY) /\ ~Issued(Q_SHOW_TASKS)
                                    /\ ENABLED ShowTasks)
        /\ (dpc # "fallback") => (Issued(Q_SHOW_TASKS) <=> Raised(Q_TASK_HISTORY))
        /\ (Raised(Q_TASK_HISTORY) /\ qlog[Len(qlog)].ok) =>
              /\ dpc \in {"dt", "sidebar", "idle"}
              /\ "task_status" \in rendered
              /\ (dpc = "dt") => ENABLED DtStatus
              /\ (dpc \in {"sidebar", "idle"}) =>
                    (Issued(Q_DT_STATUS) /\ LaterSections \subseteq rendered)
        /\ \A i \in 1..Len(qlog) :
              (~qlog[i].ok /\ qlog[i].q # Q_TASK_HISTORY) =>
                    (i = Len(qlog) /\ dpc = "stopped")
        /\ (dpc = "stopped") =>
              /\ Len(qlog) > 0
              /\ ~qlog[Len(qlog)].ok
              /\ qlog[Len(qlog)].q # Q_TASK_HISTORY
              /\ rendered \cap {"sidebar"} = {}
              /\ (qlog[Len(qlog)].q = Q_SHOW_TASKS) =>
                    (rendered \cap ({"task_status"} \cup LaterSections) = {})
              /\ (qlog[Len(qlog)].q = Q_DT_STATUS) => (rendered \cap LaterSections = {})

C11_FallbackOnlyForTaskHistory ==
    /\ [](C11_State)
    /\ [][(variant = "app" /\ dpc = "stopped") =>
              (runs' = runs + 1 \/ (rendered' = rendered /\ qlog' = qlog))]_vars

\* the preferred query raised, the alternate one answered, the run completed
C11_Witness ==
    /\ variant = "app"
    /\ dpc = "idle"
    /\ Raised(Q_TASK_HISTORY)
    /\ Issued(Q_SHOW_TASKS)
    /\ ~Raised(Q_SHOW_TASKS)
    /\ LaterSections \subseteq rendered

\* ---------------------------------------------------------------------
\* C12: pressing 'Refresh Data' clears the cached connection and triggers a
\* rerun in which every dashboard query is issued again; in app.py the queries
\* of that rerun use a newly opened connection, not the handle cached before
\* the refresh; without a refresh connect() is called at most once per session
\* and every run_query reuses that one handle.
\* ---------------------------------------------------------------------
\* the run the session is in, or has just ended, is over
RunOver == dpc \in {"idle", "stopped"}

\* the claim as worded: every press clears the cache, and connect() is called
\* at most once more than the cache was cleared
C12_EveryPressRefreshes ==
    /\ RunOver => (clears = presses)
    /\ (variant = "app") => (connects <= 1 + clears)

\* the handles the queries of the current run went to
HandlesUsed == {qlog[i].handle : i \in {k \in 1..Len(qlog) : qlog[k].handle # -1}}

\* the five queries every complete run issues
EveryRunQueries == {Q_ROW_COUNTS, Q_DATA_QUALITY, Q_STREAM, Q_TASK_HISTORY, Q_DT_STATUS}

C12_State ==
    /\ clears <= presses
    /\ (trigger = "click") => (clears < presses)
    /\ (trigger = "click" /\ dpc = "stopped" /\ variant = "app") =>
          (cache # <<>> /\ HandlesUsed = {cache[1]})
    /\ (trigger = "rerun") => (clears >= 1)
    /\ (dpc \in {"sidebar", "idle"}) => (\A q \in EveryRunQueries : Issued(q))
    /\ (variant = "app") =>
          /\ handles <= 1 + clears
          /\ (cache = <<>>) => (HandlesUsed = {})
          /\ (cache # <<>>) => (HandlesUsed \subseteq {cache[1]})
          /\ (trigger = "rerun" /\ stale # <<>>) => (stale[1] \notin HandlesUsed)
          /\ (trigger = "rerun" /\ qlog # <<>>) =>
                (qlog[1].handle = -1 \/ qlog[1].handle = handles)
    /\ (variant = "app_sis") => (HandlesUsed \subseteq {0} /\ connects = 0)

C12_RefreshReconnects ==
    /\ [](C12_State)
    /\ [][(dpc = "sidebar" /\ trigger = "click") =>
              /\ clears' = clears + 1
              /\ (variant = "app") => (cache' = <<>>)
              /\ runs' = runs + 1
              /\ trigger' = "rerun"
              /\ dpc' = "tab1"
              /\ qlog' = <<>>]_vars
    /\ [][(trigger = "click" /\ dpc' = "stopped") =>
              (clears' = clears /\ cache' = cache /\ runs' = runs)]_vars
    /\ [][(connects' # connects) => (variant = "app" /\ cache = <<>>)]_vars
    /\ [][(cache # <<>> /\ cache' # cache) => (clears' = clears + 1)]_vars

\* a rerun after a refresh has completed on a second connection
C12_Witness ==
    /\ variant = "app"
    /\ trigger = "rerun"
    /\ dpc = "idle"
    /\ presses = 1
    /\ clears = 1
    /\ stale = <<1>>
    /\ cache = <<2>>
    /\ HandlesUsed = {2}
    /\ connects = 2

====
